---- MODULE Spec2Model ----
(***************************************************************************)
(* Model of src/bot.py: the Telegram movie search bot with request         *)
(* tracking in the MongoDB collection movie_requests.                      *)
(*                                                                         *)
(* Texts are sequences of one-character strings, so that strip(), split()  *)
(* and join() are computed as Python computes them.  The collection maps   *)
(* each movie_name that has documents to the sequence of its documents in  *)
(* natural (insertion) order: MongoDB gives each document its own _id, so  *)
(* several documents with one movie_name can coexist, and find_one,        *)
(* update_one and delete_one act on the first that matches.  Every filter  *)
(* the program uses is by movie_name, so the order between documents of    *)
(* different names is not kept.  The array user_requested is a bag of user *)
(* ids: no handler depends on its order.                                   *)
(***************************************************************************)
EXTENDS Integers, Sequences, FiniteSets, Bags, TLC

VARIABLES
    store,      \* requests_collection: movie_name -> its documents, in order
    last,       \* the handler invocation that completed last (its update)
    reply,      \* messages the last handler sent or edited for its caller
    attempts,   \* context.bot.send_message calls of the last handler: bag of chat ids
    delivered,  \* chat ids whose send_message call did not raise
    task,       \* button_callback invocations in flight, per task
    clicked     \* history: the (user, movie_name) pairs of the response_no clicks
                \* handled since a /delete last named movie_name

vars == <<store, last, reply, attempts, delivered, task, clicked>>

----------------------------------------------------------------------------
(* Bounds of the model *)

NumUsers == 2       \* user ids 1..NumUsers send updates
NumTasks == 2       \* overlapping button_callback handlers (SpecConc)
MaxRecords == 2     \* documents in the collection (SpecConc)
MaxTimes == 3       \* largest "times" a concurrent update may write (SpecConc)

(* Program constants *)

ADMIN_USER_ID == 1
CHANNELS == <<"@cc_new_moviess">>

Users == 1..NumUsers
Tasks == 1..NumTasks

SP == " "
BAR == "|"
COMMA == ","

----------------------------------------------------------------------------
(* Python string operations on sequences of characters *)

RECURSIVE LStrip(_)
LStrip(s) ==
    IF s = <<>> THEN s
    ELSE IF Head(s) = SP THEN LStrip(Tail(s)) ELSE s

RECURSIVE RStrip(_)
RStrip(s) ==
    IF s = <<>> THEN s
    ELSE IF s[Len(s)] = SP THEN RStrip(SubSeq(s, 1, Len(s) - 1)) ELSE s

\* str.strip()
Strip(s) == RStrip(LStrip(s))

FirstIndex(s, d) ==
    IF \E i \in 1..Len(s) : s[i] = d
    THEN CHOOSE i \in 1..Len(s) : s[i] = d /\ \A j \in 1..(i - 1) : s[j] # d
    ELSE 0

\* str.split(d): every piece between delimiters, empty pieces kept
RECURSIVE Split(_, _)
Split(s, d) ==
    LET i == FirstIndex(s, d) IN
    IF i = 0 THEN <<s>>
    ELSE <<SubSeq(s, 1, i - 1)>> \o Split(SubSeq(s, i + 1, Len(s)), d)

\* str.split(): the maximal runs of non-whitespace characters
RECURSIVE SplitWs(_)
SplitWs(s) ==
    LET t == LStrip(s)
        i == FirstIndex(t, SP)
    IN  IF t = <<>> THEN <<>>
        ELSE IF i = 0 THEN <<t>>
        ELSE <<SubSeq(t, 1, i - 1)>> \o SplitWs(SubSeq(t, i, Len(t)))

\* d.join(parts)
RECURSIVE Join(_, _)
Join(parts, d) ==
    IF parts = <<>> THEN <<>>
    ELSE IF Len(parts) = 1 THEN parts[1]
    ELSE parts[1] \o <<d>> \o Join(Tail(parts), d)

\* [x.strip() for x in parts]
RECURSIVE StripAll(_)
StripAll(parts) ==
    IF parts = <<>> THEN <<>>
    ELSE <<Strip(Head(parts))>> \o StripAll(Tail(parts))

Range(s) == {s[i] : i \in 1..Len(s)}

----------------------------------------------------------------------------
(* Inputs *)

\* texts of the messages users send to search
Texts ==
    { <<"a">>, <<"b">>, <<"a", "|", "b">>, <<"a", " ", "b">>, <<" ", "a", " ">> }

\* what follows the command in an admin command message
ArgTexts ==
    { <<>>,
      <<"a">>,
      <<"a", ",", "b", " ", "x">>,
      <<"b", ",", "a", ",", "a", " ", "x">>,
      <<"a", ",", " ", "b">> }

\* the action tags of the feedback buttons; a tag holds no delimiter and is
\* kept as one symbol
RESPONSE_YES == <<"response_yes">>
RESPONSE_NO == <<"response_no">>

\* f"response_yes|{movie_name}", f"response_no|{movie_name}"
CallbackData(action, movie_name) == action \o <<BAR>> \o movie_name

\* movie_name = update.message.text.strip()
QueryOf(text) == Strip(text)

\* the payloads of the feedback buttons the bot can have sent
Payloads ==
    { CallbackData(a, QueryOf(t)) : a \in {RESPONSE_YES, RESPONSE_NO}, t \in Texts }

\* a handler that takes every click for a No
DataActionNo(data) == RESPONSE_NO

\* data = query.data.split("|"); action = data[0]; movie_name = data[1]
DataAction(data) == Split(data, BAR)[1]
DataMovieName(data) == Split(data, BAR)[2]

----------------------------------------------------------------------------
(* The collection movie_requests and the pymongo operations used on it *)

Doc(name, times, users) ==
    [movie_name |-> name, times |-> times, user_requested |-> users]

One(x) == SetToBag({x})

EmptyCollection == <<>>

\* the documents with this movie_name, in natural order
Matching(st, name) == IF name \in DOMAIN st THEN st[name] ELSE <<>>

\* the collection with name's documents replaced by docs
WithMatching(st, name, docs) ==
    [n \in (DOMAIN st \ {name}) \cup (IF docs = <<>> THEN {} ELSE {name}) |->
        IF n = name THEN docs ELSE st[n]]

\* a find_one whose filter is left out: the first document of the collection
FindOneUnfiltered(st, name) ==
    IF DOMAIN st = {} THEN <<>>
    ELSE <<Head(st[CHOOSE n \in DOMAIN st : TRUE])>>

\* find_one({"movie_name": name}): None is <<>>, a document d is <<d>>
FindOne(st, name) ==
    IF Matching(st, name) = <<>> THEN <<>> ELSE <<Head(Matching(st, name))>>

\* a "$set" written for the "$addToSet"
AddToSetReplacing(users, u) == One(u)

\* {"$addToSet": {"user_requested": u}}
AddToSet(users, u) == IF BagIn(u, users) THEN users ELSE users (+) One(u)

\* the update without its "$addToSet"
IncOnly(d, u) == [d EXCEPT !.times = @ + 1]

\* {"$inc": {"times": 1}, "$addToSet": {"user_requested": u}} on one document
IncAndAdd(d, u) ==
    [d EXCEPT !.times = @ + 1, !.user_requested = AddToSet(@, u)]

\* update_one({"movie_name": name}, {"$inc": ..., "$addToSet": ...})
UpdateOne(st, name, u) ==
    LET docs == Matching(st, name) IN
    IF docs = <<>> THEN st
    ELSE WithMatching(st, name, <<IncAndAdd(Head(docs), u)>> \o Tail(docs))

\* an insert that starts the count at 0
InsertOneFromZero(st, name, u) ==
    WithMatching(st, name, Append(Matching(st, name), Doc(name, 0, One(u))))

\* insert_one({"movie_name": name, "times": 1, "user_requested": [u]})
InsertOne(st, name, u) ==
    WithMatching(st, name, Append(Matching(st, name), Doc(name, 1, One(u))))

\* delete_one({}): the filter left out
DeleteOneUnfiltered(st, name) ==
    IF DOMAIN st = {} THEN [store |-> st, deleted_count |-> 0]
    ELSE LET n == CHOOSE n \in DOMAIN st : TRUE IN
         [store |-> WithMatching(st, n, Tail(st[n])), deleted_count |-> 1]

\* delete_one({"movie_name": name}): the collection it leaves and its
\* deleted_count
DeleteOne(st, name) ==
    LET docs == Matching(st, name) IN
    IF docs = <<>> THEN [store |-> st, deleted_count |-> 0]
    ELSE [store |-> WithMatching(st, name, Tail(docs)), deleted_count |-> 1]

RECURSIVE SumLen(_, _)
SumLen(st, names) ==
    IF names = {} THEN 0
    ELSE LET n == CHOOSE n \in names : TRUE IN Len(st[n]) + SumLen(st, names \ {n})

\* count_documents({})
CountDocuments(st) == SumLen(st, DOMAIN st)

\* find(): every document of the collection
Documents(st) == UNION {Range(st[n]) : n \in DOMAIN st}

----------------------------------------------------------------------------
(* Messages to the caller *)

Msg(kind, body) == [kind |-> kind, body |-> body]

NoTask == [pc |-> "idle", user |-> 0, data |-> <<>>, existing_request |-> <<>>]

Invocation(op, user, arg) == [op |-> op, user |-> user, arg |-> arg]

Init ==
    /\ store = EmptyCollection
    /\ last = Invocation("none", 0, <<>>)
    /\ reply = <<>>
    /\ attempts = EmptyBag
    /\ delivered = {}
    /\ task = [k \in Tasks |-> NoTask]
    /\ clicked = {}

----------------------------------------------------------------------------
(* button_callback *)

\* the branch without the membership test: every click on an existing record
\* updates it
RecordRequestUnconditional(st, existing_request, movie_name, u) ==
    IF existing_request # <<>>
    THEN UpdateOne(st, movie_name, u)
    ELSE InsertOne(st, movie_name, u)

\* the collection the response_no branch leaves, given what find_one returned
RecordRequest(st, existing_request, movie_name, u) ==
    IF existing_request # <<>>
    THEN IF ~BagIn(u, existing_request[1].user_requested)
         THEN UpdateOne(st, movie_name, u)
         ELSE st
    ELSE InsertOne(st, movie_name, u)

\* the message the handler edits into the prompt
Acknowledgement(action) ==
    IF action = RESPONSE_YES THEN <<Msg("hope_it_helped", <<>>)>>
    ELSE IF action = RESPONSE_NO THEN <<Msg("request_noted", <<>>)>>
    ELSE <<>>

\* the record of a handled click; repeat tells whether the same user had
\* already clicked response_no for the same movie_name
Clicked(u, data) ==
    [op |-> "button_callback", user |-> u, arg |-> data,
     repeat |-> <<u, DataMovieName(data)>> \in clicked]

ClickedAfter(u, data) ==
    IF DataAction(data) = RESPONSE_NO
    THEN clicked \cup {<<u, DataMovieName(data)>>}
    ELSE clicked

\* the whole handler, with no other handler's store operation in between;
\* inv is what the history keeps of the invocation
HandleCallback(u, data, inv) ==
    LET action == DataAction(data)
        movie_name == DataMovieName(data)
        existing_request == FindOne(store, movie_name)
    IN  /\ store' = IF action = RESPONSE_NO
                    THEN RecordRequest(store, existing_request, movie_name, u)
                    ELSE store
        /\ reply' = Acknowledgement(action)
        /\ last' = inv
        /\ clicked' = ClickedAfter(u, data)
        /\ attempts' = EmptyBag
        /\ delivered' = {}
        /\ UNCHANGED task

ButtonCallback(u, data) == HandleCallback(u, data, Clicked(u, data))

----------------------------------------------------------------------------
(* Admin commands *)

NOT_AUTHORIZED == <<Msg("not_authorized", <<>>)>>

\* the check left out
IsAdminAnyone(u) == TRUE

\* user.id != ADMIN_USER_ID rejects the caller
IsAdmin(u) == u = ADMIN_USER_ID

\* /requests
ViewRequests(u) ==
    /\ reply' = IF ~IsAdmin(u) THEN NOT_AUTHORIZED
                ELSE IF CountDocuments(store) = 0
                     THEN <<Msg("no_requests_yet", <<>>)>>
                     ELSE <<Msg("movie_requests", <<store>>)>>
    /\ last' = Invocation("view_requests", u, <<>>)
    /\ attempts' = EmptyBag
    /\ delivered' = {}
    /\ UNCHANGED <<store, task, clicked>>

\* /help
Help(u) ==
    /\ reply' = IF ~IsAdmin(u) THEN NOT_AUTHORIZED
                ELSE <<Msg("help_for_admin", <<>>)>>
    /\ last' = Invocation("help", u, <<>>)
    /\ attempts' = EmptyBag
    /\ delivered' = {}
    /\ UNCHANGED <<store, task, clicked>>

\* args = context.args: the command's text after the command, split on whitespace
ArgsOf(argtext) == SplitWs(argtext)

\* movie_names = args[0].split(",")
MovieNamesOf(args) == Split(args[1], COMMA)

\* user_ids.update(movie_request["user_requested"]), user_ids a Python set
UserIdsUpdate(user_ids, user_requested) ==
    SetToBag(BagToSet(user_ids) \cup BagToSet(user_requested))

\* the loop over movie_names that collects user_ids
RECURSIVE CollectUserIds(_, _, _)
CollectUserIds(st, movie_names, user_ids) ==
    IF movie_names = <<>> THEN user_ids
    ELSE LET movie_request == FindOne(st, Strip(Head(movie_names))) IN
         CollectUserIds(st, Tail(movie_names),
                        IF movie_request = <<>> THEN user_ids
                        ELSE UserIdsUpdate(user_ids, movie_request[1].user_requested))

\* a send loop that a raising send_message ends
SendLoopAborting(user_ids, failing) ==
    IF failing = {} THEN user_ids ELSE One(CHOOSE u \in failing : TRUE)

\* the send loop: one send_message call per element of user_ids, whatever
\* calls raised before
SendLoop(user_ids, failing) == user_ids

\* the movie names of a command, none when it has no argument
NamesIn(argtext) ==
    IF ArgsOf(argtext) = <<>> THEN <<>> ELSE MovieNamesOf(ArgsOf(argtext))

\* the sets of chat ids for which send_message can raise
FailuresAmong(user_ids) == SUBSET BagToSet(user_ids)

\* /broadcast; send_message raises for the chat ids in failing
Broadcast(u, argtext, failing) ==
    LET args == ArgsOf(argtext) IN
    /\ last' = Invocation("broadcast", u, argtext)
    /\ UNCHANGED <<store, task, clicked>>
    /\ IF ~IsAdmin(u)
       THEN /\ failing = {}
            /\ reply' = NOT_AUTHORIZED
            /\ attempts' = EmptyBag
            /\ delivered' = {}
       ELSE IF Len(args) < 2
       THEN /\ failing = {}
            /\ reply' = <<Msg("usage_broadcast", <<>>)>>
            /\ attempts' = EmptyBag
            /\ delivered' = {}
       ELSE LET user_ids == CollectUserIds(store, MovieNamesOf(args), EmptyBag) IN
               /\ failing \in FailuresAmong(user_ids)
               /\ attempts' = SendLoop(user_ids, failing)
               /\ delivered' = BagToSet(SendLoop(user_ids, failing)) \ failing
               /\ reply' = IF user_ids # EmptyBag
                           THEN <<Msg("broadcast_sent", MovieNamesOf(args))>>
                           ELSE <<Msg("no_requests_found", <<>>)>>

\* one line of the delete report
ReportLine(movie_name, deleted_count) ==
    [movie_name |-> movie_name, deleted |-> deleted_count > 0]

\* a loop that a name without record ends
RECURSIVE DeleteLoopStopping(_, _, _)
DeleteLoopStopping(st, movie_names, report) ==
    IF movie_names = <<>> THEN [store |-> st, report |-> report]
    ELSE LET movie_name == Strip(Head(movie_names))
             result == DeleteOne(st, movie_name)
         IN  IF result.deleted_count = 0
             THEN [store |-> st,
                   report |-> Append(report, [movie_name |-> movie_name,
                                              deleted |-> FALSE])]
             ELSE DeleteLoopStopping(result.store, Tail(movie_names),
                     Append(report, [movie_name |-> movie_name, deleted |-> TRUE]))

\* the loop over movie_names: the collection it leaves and the report
RECURSIVE DeleteLoop(_, _, _)
DeleteLoop(st, movie_names, report) ==
    IF movie_names = <<>> THEN [store |-> st, report |-> report]
    ELSE LET movie_name == Strip(Head(movie_names))
             result == DeleteOne(st, movie_name)
         IN  DeleteLoop(result.store, Tail(movie_names),
                        Append(report, ReportLine(movie_name, result.deleted_count)))

\* /delete
DeleteMovies(u, argtext) ==
    LET args == ArgsOf(argtext) IN
    /\ last' = Invocation("delete_movies", u, argtext)
    /\ attempts' = EmptyBag
    /\ delivered' = {}
    /\ UNCHANGED task
    /\ IF ~IsAdmin(u)
       THEN /\ reply' = NOT_AUTHORIZED
            /\ UNCHANGED <<store, clicked>>
       ELSE IF Len(args) = 0
       THEN /\ reply' = <<Msg("usage_delete", <<>>)>>
            /\ UNCHANGED <<store, clicked>>
       ELSE LET done == DeleteLoop(store, MovieNamesOf(args), <<>>) IN
               /\ store' = done.store
               /\ reply' = <<Msg("delete_report", done.report)>>
               /\ clicked' = {c \in clicked :
                                 c[2] \notin Range(StripAll(MovieNamesOf(args)))}

----------------------------------------------------------------------------
(* Subscription gate, /start and search *)

\* what get_chat_member gives for one channel: a member status, or it raises
MemberOutcomes == {"member", "administrator", "left", "kicked", "raises"}

\* a check that turns away only the status "left"
SubscribedUnlessLeft(outcomes, i) ==
    \A j \in i..Len(CHANNELS) : outcomes[j] # "left"

\* is_subscribed, outcomes[i] being the outcome for CHANNELS[i]
RECURSIVE SubscribedFrom(_, _)
SubscribedFrom(outcomes, i) ==
    IF i > Len(CHANNELS) THEN TRUE
    ELSE IF outcomes[i] = "raises" THEN FALSE
    ELSE IF outcomes[i] \in {"left", "kicked"} THEN FALSE
    ELSE SubscribedFrom(outcomes, i + 1)

IsSubscribed(outcomes) == SubscribedFrom(outcomes, 1)

SUBSCRIBE_PROMPT == <<Msg("subscribe", <<>>)>>

\* /start
Start(u, outcomes) ==
    /\ reply' = IF ~IsSubscribed(outcomes) THEN SUBSCRIBE_PROMPT
                ELSE <<Msg("welcome", <<>>)>>
    /\ last' = [op |-> "start", user |-> u, arg |-> <<>>, outcomes |-> outcomes]
    /\ attempts' = EmptyBag
    /\ delivered' = {}
    /\ UNCHANGED <<store, task, clicked>>

\* the catalog at JSON_URL: title -> link pairs in the order of the JSON object
Entry(title, link) == [title |-> title, link |-> link]

\* fetch_movie_data: what requests.get(...).json() gives, or how it fails.
\* "request_exception" is a failure that is a requests.RequestException (no
\* connection, a timeout, an error status): the except clause answers {}.
\* "other_exception" is a failure that is none: response.json() raising a
\* ValueError on a body that is no JSON (requests before 2.27), or a body
\* that is JSON but no object, whose .keys() raises in search_movie.  Either
\* way the exception reaches the except clause of search_movie.
FetchResults ==
    { [kind |-> "ok", data |-> <<>>],
      [kind |-> "ok", data |-> <<Entry("m1", "u1"), Entry("m2", "u2")>>],
      [kind |-> "ok", data |-> <<Entry("m1", "u1"), Entry("m2", "u2"), Entry("m3", "u3"),
                                 Entry("m4", "u4"), Entry("m5", "u5"), Entry("m6", "u6")>>],
      [kind |-> "request_exception", data |-> <<>>],
      [kind |-> "other_exception", data |-> <<>>] }

\* the scorer of process.extract, an abstract total function of (query, title)
TitleNo(title) ==
    CASE title = "m1" -> 1 [] title = "m2" -> 2 [] title = "m3" -> 3
      [] title = "m4" -> 4 [] title = "m5" -> 5 [] OTHER -> 6

Score(query, title) == ((TitleNo(title) * 3 + Len(query)) % 4) * 25

\* the first entries of the catalog in its own order, with no ranking
NFirst(limit, query, entries) ==
    SubSeq(entries, 1, IF Len(entries) < limit THEN Len(entries) ELSE limit)

\* heapq.nlargest(limit, ..., key=score): highest score first, earlier first on ties
RECURSIVE NLargest(_, _, _)
NLargest(limit, query, entries) ==
    IF limit = 0 \/ entries = <<>> THEN <<>>
    ELSE LET best == CHOOSE i \in 1..Len(entries) :
                        /\ \A j \in 1..Len(entries) :
                              Score(query, entries[j].title) <= Score(query, entries[i].title)
                        /\ \A j \in 1..(i - 1) :
                              Score(query, entries[j].title) < Score(query, entries[i].title)
             rest == SubSeq(entries, 1, best - 1) \o SubSeq(entries, best + 1, Len(entries))
         IN  <<entries[best]>> \o NLargest(limit - 1, query, rest)

LIMIT == 5

\* process.extract(movie_name, movie_names, limit=5) and the buttons built from it
Buttons(movie_name, movie_data) == NLargest(LIMIT, movie_name, movie_data)

FeedbackPrompt(movie_name) ==
    Msg("did_this_contain",
        <<CallbackData(RESPONSE_YES, movie_name), CallbackData(RESPONSE_NO, movie_name)>>)

\* a search that sends the prompt whether or not it has buttons
SearchReplyPrompting(movie_name, fetched) ==
    LET movie_data == IF fetched.kind = "ok" THEN fetched.data ELSE <<>>
        buttons == Buttons(movie_name, movie_data)
    IN  <<IF buttons # <<>> THEN Msg("closest_matches", buttons)
          ELSE Msg("no_matching_movies", <<>>),
          FeedbackPrompt(movie_name)>>

\* the messages of a search that got past the gate
SearchReply(movie_name, fetched) ==
    IF fetched.kind = "other_exception" THEN <<Msg("error_occurred", <<>>)>>
    ELSE LET movie_data == IF fetched.kind = "ok" THEN fetched.data ELSE <<>>
             buttons == Buttons(movie_name, movie_data)
         IN  IF buttons # <<>>
             THEN <<Msg("closest_matches", buttons), FeedbackPrompt(movie_name)>>
             ELSE <<Msg("no_matching_movies", <<>>)>>

\* a text message that is not a command
SearchMovie(u, text, outcomes, fetched) ==
    /\ reply' = IF ~IsSubscribed(outcomes) THEN SUBSCRIBE_PROMPT
                ELSE SearchReply(QueryOf(text), fetched)
    /\ last' = [op |-> "search_movie", user |-> u, arg |-> text,
                outcomes |-> outcomes,
                fetched |-> fetched]
    /\ attempts' = EmptyBag
    /\ delivered' = {}
    /\ UNCHANGED <<store, task, clicked>>

\* the fetch is made only past the gate
NOT_FETCHED == [kind |-> "not_fetched", data |-> <<>>]
FetchesAfter(outcomes) == IF IsSubscribed(outcomes) THEN FetchResults ELSE {NOT_FETCHED}

\* the outcomes of the membership queries, one per channel
Outcomes == [1..Len(CHANNELS) -> MemberOutcomes]

\* the searches drawn next to the store's handlers: a member and a user who
\* left, a catalog with matches
StoreOutcomes == [1..Len(CHANNELS) -> {"member", "left"}]
StoreFetches ==
    { NOT_FETCHED, [kind |-> "ok", data |-> <<Entry("m1", "u1"), Entry("m2", "u2")>>] }

Next ==
    \/ \E u \in Users, data \in Payloads : ButtonCallback(u, data)
    \/ \E u \in Users : ViewRequests(u)
    \/ \E u \in Users : Help(u)
    \/ \E u \in Users, argtext \in ArgTexts :
          \E failing \in FailuresAmong(CollectUserIds(store, NamesIn(argtext), EmptyBag)) :
             Broadcast(u, argtext, failing)
    \/ \E u \in Users, argtext \in ArgTexts : DeleteMovies(u, argtext)
    \/ \E u \in Users, outcomes \in StoreOutcomes : Start(u, outcomes)
    \/ \E u \in Users, text \in Texts, outcomes \in StoreOutcomes :
          \E fetched \in FetchesAfter(outcomes) \cap StoreFetches :
             SearchMovie(u, text, outcomes, fetched)

\* every handler, one update handled at a time
Spec == Init /\ [][Next]_vars

\* /start and searches alone, over every outcome of the membership query and
\* of the fetch
NextSearch ==
    \/ \E u \in Users, outcomes \in Outcomes : Start(u, outcomes)
    \/ \E u \in Users, text \in Texts, outcomes \in Outcomes :
          \E fetched \in FetchesAfter(outcomes) : SearchMovie(u, text, outcomes, fetched)

SpecSearch == Init /\ [][NextSearch]_vars

\* a click by a user for whom get_chat_member, were it called at that moment,
\* would have the given outcomes; button_callback does not call is_subscribed
ClickedBy(u, data, outcomes) ==
    [op |-> "button_callback", user |-> u, arg |-> data,
     repeat |-> <<u, DataMovieName(data)>> \in clicked,
     outcomes |-> outcomes]

ButtonCallbackBy(u, data, outcomes) ==
    HandleCallback(u, data, ClickedBy(u, data, outcomes))

\* clicks of members and of non-members, and the administrator's deletes
NextClicks ==
    \/ \E u \in Users, data \in Payloads, outcomes \in Outcomes :
          ButtonCallbackBy(u, data, outcomes)
    \/ \E argtext \in ArgTexts : DeleteMovies(ADMIN_USER_ID, argtext)

SpecClicks == Init /\ [][NextClicks]_vars

\* searched texts of one word, of two words, and with a comma
AddressTexts == { <<"a">>, <<"a", SP, "b">>, <<"a", COMMA, "b">> }

\* every text of up to MaxCommandLen characters that can follow an admin command
MaxCommandLen == 3
CommandTexts == UNION {[1..n -> {"a", "b", SP, COMMA}] : n \in 0..MaxCommandLen}

\* response_no clicks on the prompts of those searches, and the administrator's
\* /delete and /broadcast with every command text
NextAddress ==
    \/ \E u \in Users, text \in AddressTexts :
          ButtonCallback(u, CallbackData(RESPONSE_NO, QueryOf(text)))
    \/ \E argtext \in CommandTexts : DeleteMovies(ADMIN_USER_ID, argtext)
    \/ \E argtext \in CommandTexts :
          \E failing \in FailuresAmong(CollectUserIds(store, NamesIn(argtext), EmptyBag)) :
             Broadcast(ADMIN_USER_ID, argtext, failing)

SpecAddress == Init /\ [][NextAddress]_vars

----------------------------------------------------------------------------
(* Overlapping button_callback handlers.  The collection lives in the       *)
(* MongoDB server and is shared by every running instance of the bot (an    *)
(* old and a new deployment behind the webhook, a second poller), and each  *)
(* pymongo call is one operation of the server: between one handler's       *)
(* find_one and its update_one or insert_one, the operations of a handler   *)
(* of another instance can take place.                                      *)

\* query.answer(), the split of query.data, and find_one
CallbackFind(k, u, data) ==
    /\ task[k].pc = "idle"
    /\ DataAction(data) = RESPONSE_NO
    /\ task' = [task EXCEPT ![k] = [pc |-> "found", user |-> u, data |-> data,
                                    existing_request |->
                                       FindOne(store, DataMovieName(data))]]
    /\ UNCHANGED <<store, last, reply, attempts, delivered, clicked>>

\* the bounds of the model on what a write may leave
WithinBounds(st) ==
    /\ CountDocuments(st) <= MaxRecords
    /\ \A d \in Documents(st) : d.times <= MaxTimes

\* update_one or insert_one (or neither), then the edit of the prompt
CallbackWrite(k) ==
    LET u == task[k].user
        data == task[k].data
    IN  /\ task[k].pc = "found"
        /\ store' = RecordRequest(store, task[k].existing_request,
                                  DataMovieName(data), u)
        /\ WithinBounds(store')
        /\ reply' = Acknowledgement(DataAction(data))
        /\ last' = Clicked(u, data)
        /\ clicked' = ClickedAfter(u, data)
        /\ attempts' = EmptyBag
        /\ delivered' = {}
        /\ task' = [task EXCEPT ![k] = NoTask]

\* the overlapping clicks are on the prompts of one search text
ConcPayloads == {CallbackData(RESPONSE_NO, QueryOf(<<"a">>))}
ConcArgTexts == {<<"a">>}

NextConc ==
    \/ \E k \in Tasks, u \in Users, data \in ConcPayloads : CallbackFind(k, u, data)
    \/ \E k \in Tasks : CallbackWrite(k)
    \/ \E argtext \in ConcArgTexts : DeleteMovies(ADMIN_USER_ID, argtext)

SpecConc == Init /\ [][NextConc]_vars

----------------------------------------------------------------------------
(* Properties *)

\* a handled response_no click
NoClick(inv) == inv.op = "button_callback" /\ DataAction(inv.arg) = RESPONSE_NO

\* the names an admin command addresses
NamedBy(argtext) == StripAll(MovieNamesOf(ArgsOf(argtext)))

AdminDelete(inv) ==
    inv.op = "delete_movies" /\ inv.user = ADMIN_USER_ID /\ Len(ArgsOf(inv.arg)) > 0

AdminBroadcast(inv) ==
    inv.op = "broadcast" /\ inv.user = ADMIN_USER_ID /\ Len(ArgsOf(inv.arg)) >= 2

\* the documents of the collection with this movie_name
Matches(st, name) == Range(Matching(st, name))

\* every document whose movie_name is outside names is the same in st and st2
OthersUnchanged(st, st2, names) ==
    \A n \in (DOMAIN st \cup DOMAIN st2) \ names :
        n \in DOMAIN st /\ n \in DOMAIN st2 /\ st2[n] = st[n]

\* C1: with handlers run one after the other, every record lists each
\* requesting user once, and its times is the number of distinct users listed,
\* which is at least 1.
C1_DedupInvariant ==
    \A d \in Documents(store) :
        /\ \A u \in BagToSet(d.user_requested) : CopiesIn(u, d.user_requested) = 1
        /\ d.times = Cardinality(BagToSet(d.user_requested))
        /\ d.times >= 1

C1_Witness ==
    /\ last.op = "delete_movies"
    /\ \E d \in Documents(store) : d.times = 2

\* C2: a response_no click by u on t creates (t, 1, {u}) when t has no record,
\* adds u and 1 to the count when u is not listed, changes nothing when u is
\* listed; afterwards a record of t lists u, and no other title's record changed.
C2_ThreeCases ==
    [][NoClick(last') =>
        LET u == last'.user
            t == DataMovieName(last'.arg)
            old == Matching(store, t)
            new == Matching(store', t)
        IN  /\ old = <<>> =>
                 new = <<[movie_name |-> t, times |-> 1,
                          user_requested |-> SetToBag({u})]>>
            /\ \A d \in Range(old) : ~BagIn(u, d.user_requested) =>
                 new = <<[movie_name |-> t, times |-> d.times + 1,
                          user_requested |-> d.user_requested (+) SetToBag({u})]>>
            /\ \A d \in Range(old) : BagIn(u, d.user_requested) => store' = store
            /\ \E d \in Range(new) : BagIn(u, d.user_requested)
            /\ OthersUnchanged(store, store', {t})
      ]_vars

C2_Witness ==
    /\ NoClick(last)
    /\ ~last.repeat
    /\ \E d \in Matches(store, DataMovieName(last.arg)) : d.times = 2
    /\ \E d \in Documents(store) : d.movie_name # DataMovieName(last.arg)

\* C3: a response_no click by a user who already clicked response_no for the
\* same title, no delete of the title in between, leaves the store as it was.
C3_RepeatClickIdempotent ==
    [][(NoClick(last') /\ <<last'.user, DataMovieName(last'.arg)>> \in clicked)
          => store' = store]_vars

C3_Witness ==
    /\ NoClick(last)
    /\ last.repeat
    /\ \E d \in Matches(store, DataMovieName(last.arg)) :
          d.times = 1 /\ BagToSet(d.user_requested) = {last.user}

\* C4: when exactly two distinct users have clicked response_no for a title
\* since it last had no record, the store holds exactly one record of the
\* title, with times 2 and exactly those two users.
C4_TwoUsers ==
    \A c \in clicked :
        LET t == c[2]
            us == {u \in Users : <<u, t>> \in clicked}
        IN  Cardinality(us) = 2 =>
              /\ Len(Matching(store, t)) = 1
              /\ Matching(store, t)[1].times = 2
              /\ BagToSet(Matching(store, t)[1].user_requested) = us

C4_Witness ==
    /\ last.op = "button_callback"
    /\ \E c \in clicked : Cardinality({u \in Users : <<u, c[2]>> \in clicked}) = 2

\* C5: the store never holds two records with the same movie_name, also when
\* the store operations of two response_no handlers interleave.
C5_UniqueByName == \A n \in DOMAIN store : Len(store[n]) = 1

\* C6: once no response_no handler is in flight, every record's times is the
\* number of distinct users it lists, also when handlers interleaved between
\* their find_one and their update_one.
C6_DedupWhenDone ==
    (\A k \in Tasks : task[k].pc = "idle") =>
        \A d \in Documents(store) :
            d.times = Cardinality(BagToSet(d.user_requested))

\* C7: an admin command from a caller other than the administrator leaves the
\* store unchanged, sends nothing to any user, and answers with the
\* authorization rejection only.
C7_NonAdminRejected ==
    [][(/\ last'.op \in {"view_requests", "help", "broadcast", "delete_movies"}
        /\ last'.user # ADMIN_USER_ID)
          => /\ store' = store
             /\ attempts' = EmptyBag
             /\ delivered' = {}
             /\ Len(reply') = 1
             /\ reply'[1].kind = "not_authorized"]_vars

C7_Witness ==
    /\ last.op = "delete_movies"
    /\ last.user # ADMIN_USER_ID
    /\ Len(ArgsOf(last.arg)) > 0
    /\ \E n \in Range(NamedBy(last.arg)) : Matches(store, n) # {}

\* C8: an admin delete reports every named movie_name that has no record as
\* not found, and when none of the names has a record the store is unchanged.
C8_DeleteAbsent ==
    [][AdminDelete(last') =>
        LET names == NamedBy(last'.arg)
            report == reply'[1].body
        IN  /\ reply'[1].kind = "delete_report"
            /\ Len(report) = Len(names)
            /\ \A i \in 1..Len(names) :
                  Matches(store, names[i]) = {} =>
                     report[i] = [movie_name |-> names[i], deleted |-> FALSE]
            /\ (\A n \in Range(names) : Matches(store, n) = {}) => store' = store
      ]_vars

C8_Witness ==
    /\ AdminDelete(last)
    /\ store # EmptyCollection
    /\ reply[1].kind = "delete_report"
    /\ \A i \in 1..Len(reply[1].body) : ~reply[1].body[i].deleted

\* C9: an admin delete of several names removes every named record that is
\* present and reports it as success, reports every absent name as not found,
\* goes on after a name that is not found, and leaves the other records alone.
C9_DeleteSeveral ==
    [][AdminDelete(last') =>
        LET names == NamedBy(last'.arg)
            report == reply'[1].body
        IN  /\ reply'[1].kind = "delete_report"
            /\ Len(report) = Len(names)
            /\ \A i \in 1..Len(names) : report[i].movie_name = names[i]
            /\ \A n \in Range(names) :
                  /\ Matches(store', n) = {}
                  /\ Matches(store, n) # {} =>
                        \E i \in 1..Len(names) :
                           report[i] = [movie_name |-> n, deleted |-> TRUE]
                  /\ Matches(store, n) = {} =>
                        \A i \in 1..Len(names) :
                           names[i] = n => ~report[i].deleted
            /\ OthersUnchanged(store, store', Range(names))
      ]_vars

C9_Witness ==
    /\ AdminDelete(last)
    /\ store # EmptyCollection
    /\ reply[1].kind = "delete_report"
    /\ \E i, j \in 1..Len(reply[1].body) :
          i < j /\ ~reply[1].body[i].deleted /\ reply[1].body[j].deleted

\* C10: an admin broadcast makes exactly one send to every user listed by a
\* named record and none to any other user, whichever sends fail, and leaves
\* the store unchanged.
C10_BroadcastFanOut ==
    [][AdminBroadcast(last') =>
        LET names == Range(NamedBy(last'.arg))
            union == UNION {BagToSet(d.user_requested) :
                              d \in UNION {Matches(store, n) : n \in names}}
        IN  /\ BagToSet(attempts') = union
            /\ \A u \in union : CopiesIn(u, attempts') = 1
            /\ delivered' \subseteq union
            /\ store' = store
      ]_vars

C10_Witness ==
    /\ AdminBroadcast(last)
    /\ BagCardinality(attempts) = 2
    /\ Cardinality(delivered) = 1
    /\ \E u \in Users :
          Cardinality({d \in Documents(store) :
                         /\ d.movie_name \in Range(NamedBy(last.arg))
                         /\ BagIn(u, d.user_requested)}) = 2

\* C11: an admin broadcast none of whose named movies has a record makes no
\* send to any user and answers the admin with the "no requests found"
\* message only.
C11_BroadcastNoRecords ==
    [][(/\ AdminBroadcast(last')
        /\ \A n \in Range(NamedBy(last'.arg)) : Matches(store, n) = {})
          => /\ attempts' = EmptyBag
             /\ delivered' = {}
             /\ Len(reply') = 1
             /\ reply'[1].kind = "no_requests_found"
      ]_vars

C11_Witness ==
    /\ AdminBroadcast(last)
    /\ store # EmptyCollection
    /\ \A n \in Range(NamedBy(last.arg)) : Matches(store, n) = {}
    /\ Cardinality(Range(NamedBy(last.arg))) = 2
    /\ reply[1].kind = "no_requests_found"
    /\ attempts = EmptyBag

\* C12: a search of a subscribed user whose catalog is empty or whose fetch
\* failed, by a network failure or by a failure to parse the body, is
\* answered with the "no match" message alone: no buttons, no feedback
\* prompt, no generic error message.
C12_FetchFailureNoMatch ==
    (/\ last.op = "search_movie"
     /\ IsSubscribed(last.outcomes)
     /\ (last.fetched.kind # "ok" \/ last.fetched.data = <<>>))
       => /\ Len(reply) = 1
          /\ reply[1].kind = "no_matching_movies"

\* a search that got past the gate and fetched a catalog with titles
Searched(inv) ==
    /\ inv.op = "search_movie"
    /\ IsSubscribed(inv.outcomes)
    /\ inv.fetched.kind = "ok"
    /\ inv.fetched.data # <<>>

\* C13: a search presents at most 5 results; every presented button is a
\* title of the fetched catalog with that title's link; the results are in
\* descending order of score; and no title left out scores higher than a
\* presented one.
C13_TopK ==
    Searched(last) =>
        LET q == QueryOf(last.arg)
            catalog == last.fetched.data
            shown == reply[1].body
        IN  /\ reply[1].kind = "closest_matches"
            /\ Len(shown) <= 5
            /\ \A i \in 1..Len(shown) :
                  \E j \in 1..Len(catalog) :
                     /\ catalog[j].title = shown[i].title
                     /\ catalog[j].link = shown[i].link
            /\ \A i, j \in 1..Len(shown) :
                  i < j => Score(q, shown[i].title) >= Score(q, shown[j].title)
            /\ \A e \in Range(catalog) \ Range(shown) :
                  \A s \in Range(shown) : Score(q, s.title) >= Score(q, e.title)

C13_Witness ==
    /\ Searched(last)
    /\ Len(last.fetched.data) = 6
    /\ Len(reply[1].body) = 5
    /\ LET q == QueryOf(last.arg)
           shown == reply[1].body
       IN  /\ Score(q, shown[1].title) > Score(q, shown[5].title)
           /\ \E e \in Range(last.fetched.data) \ Range(shown) :
                 Score(q, e.title) = Score(q, shown[5].title)

\* the membership query of some required channel answers "left" or "kicked",
\* or fails
Blocked(outcomes) ==
    \E i \in 1..Len(CHANNELS) : outcomes[i] \in {"left", "kicked", "raises"}

\* C14: on /start and on a search, a user for whom the membership query of a
\* required channel answers "left" or "kicked" or fails gets the subscribe
\* prompt and nothing else, and no catalog fetch is made for them; whoever
\* gets another answer has a non-left, non-kicked status in every channel.
C14_Gate ==
    last.op \in {"start", "search_movie"} =>
        /\ Blocked(last.outcomes) =>
              /\ Len(reply) = 1
              /\ reply[1].kind = "subscribe"
              /\ last.op = "search_movie" => last.fetched = NOT_FETCHED
        /\ (\E i \in 1..Len(reply) : reply[i].kind # "subscribe") =>
              \A i \in 1..Len(CHANNELS) :
                 last.outcomes[i] \in MemberOutcomes \ {"left", "kicked", "raises"}

C14_Witness ==
    /\ last.op = "search_movie"
    /\ last.outcomes[1] = "raises"
    /\ last.fetched = NOT_FETCHED
    /\ reply = SUBSCRIBE_PROMPT

\* C15: after a response_no click on the prompt of a search for q, the
\* whitespace-trimmed text, "|" in it or not, a record whose movie_name is q
\* lists the user who clicked.
C15_RecordedUnderQuery ==
    \A text \in Texts :
       (/\ last.op = "button_callback"
        /\ last.arg = CallbackData(RESPONSE_NO, QueryOf(text)))
          => \E d \in Matches(store, QueryOf(text)) :
                BagIn(last.user, d.user_requested)

\* the payloads of the two buttons of a prompt
YesPayloads == {CallbackData(RESPONSE_YES, QueryOf(t)) : t \in Texts}
NoPayloads == {CallbackData(RESPONSE_NO, QueryOf(t)) : t \in Texts}

\* a step that removes a document, and one that creates or changes one
Removes(st, st2) ==
    \E n \in DOMAIN st : Len(Matching(st2, n)) < Len(st[n])

Writes(st, st2) ==
    \E n \in DOMAIN st2 :
       \/ Len(Matching(st, n)) < Len(st2[n])
       \/ Len(Matching(st, n)) = Len(st2[n]) /\ Matching(st, n) # st2[n]

\* C16: a document is removed only by a /delete of the administrator, and a
\* document is created or changed only by a response_no click; a
\* response_yes click, a search, /start, /help, /requests and /broadcast
\* leave the store as it was.
C16_StoreFrame ==
    [][/\ Removes(store, store') => AdminDelete(last')
       /\ Writes(store, store') =>
             last'.op = "button_callback" /\ last'.arg \in NoPayloads
       /\ (\/ last'.op \in {"search_movie", "start", "help", "view_requests",
                              "broadcast"}
           \/ last'.op = "button_callback" /\ last'.arg \in YesPayloads)
             => store' = store
      ]_vars

C16_Witness ==
    /\ last.op = "button_callback"
    /\ last.arg \in YesPayloads
    /\ last.user # ADMIN_USER_ID
    /\ CountDocuments(store) = 2

\* C17: a response_no click of a user who at that moment is no member of a
\* required channel, or for whom the membership query would fail, leaves
\* every record as it was.
C17_NonMemberClickBlocked ==
    [][(/\ last'.op = "button_callback"
        /\ last'.arg \in NoPayloads
        /\ Blocked(last'.outcomes))
          => store' = store
      ]_vars

\* C18: for every record in the store there is a /delete command of the
\* administrator that removes it and a /broadcast command that names it and
\* collects its users, the names of a command being the pieces of its first
\* whitespace-separated argument between commas, trimmed.
C18_Addressable ==
    \A n \in DOMAIN store :
       /\ \E c \in CommandTexts :
             /\ Len(ArgsOf(c)) > 0
             /\ Matching(DeleteLoop(store, MovieNamesOf(ArgsOf(c)), <<>>).store, n) = <<>>
       /\ \E c \in CommandTexts :
             /\ Len(ArgsOf(c)) >= 2
             /\ n \in Range(NamedBy(c))
             /\ BagToSet(store[n][1].user_requested) \subseteq
                   BagToSet(CollectUserIds(store, MovieNamesOf(ArgsOf(c)), EmptyBag))

\* the places of the feedback prompt and of a results message with at least
\* one button among the messages of a handler
PromptsIn(msgs) == {i \in 1..Len(msgs) : msgs[i].kind = "did_this_contain"}
ResultsIn(msgs) ==
    {i \in 1..Len(msgs) : msgs[i].kind = "closest_matches" /\ Len(msgs[i].body) >= 1}

\* C19: a search sends the feedback prompt exactly when it sends a results
\* message with at least one button, and sends it after that message; a
\* search that answers "no match" sends no prompt.
C19_PromptIffResults ==
    last.op = "search_movie" =>
        /\ PromptsIn(reply) # {} <=> ResultsIn(reply) # {}
        /\ \A i \in PromptsIn(reply) : \E j \in ResultsIn(reply) : j < i
        /\ (\E i \in 1..Len(reply) : reply[i].kind = "no_matching_movies")
              => PromptsIn(reply) = {}

C19_Witness ==
    /\ last.op = "search_movie"
    /\ QueryOf(last.arg) = <<"a", SP, "b">>
    /\ ResultsIn(reply) = {1}
    /\ PromptsIn(reply) = {2}
    /\ reply[2].body[2] = CallbackData(RESPONSE_NO, <<"a", SP, "b">>)

====
